---------------------------- MODULE Spec2Model ----------------------------
(***************************************************************************)
(* A model of the attributed-graph ADT of graph.py (BaseGraph,             *)
(* UndirectedGraph, DirectedGraph) and of pagerank.py.                     *)
(*                                                                         *)
(* A graph object is the record                                            *)
(*   [_nodes |-> ..., _edges |-> ..., _adjacency |-> ...]                  *)
(* _nodes is a Python dict: it is modelled as the sequence of its Node     *)
(* values in insertion order (the key of a Node is its _id).  _edges is    *)
(* the Python list of Edge objects.  An Edge refers to its two Node        *)
(* objects; nodes are never removed or replaced, so the reference is       *)
(* modelled by the node identifier.  _adjacency maps a node identifier to  *)
(* the list of its neighbours.  An attribute dictionary (prop) is an       *)
(* opaque value of Attrs; 0 is the empty dictionary.                       *)
(***************************************************************************)
EXTENDS Integers, Sequences, FiniteSets, TLC

VARIABLES
    directed,     \* TRUE: the object is a DirectedGraph, FALSE: an UndirectedGraph
    _nodes,       \* BaseGraph._nodes
    _edges,       \* BaseGraph._edges
    _adjacency,   \* BaseGraph._adjacency
    call,         \* the last call made on the graph
    ret,          \* what that call returned or raised
    old,          \* the graph as it was when that call was made
    added,        \* the number of add_node calls that returned normally
    pc,           \* pagerank: position in the function
    N,            \* pagerank: N
    num_iterations, \* pagerank: argument
    damping_factor, \* pagerank: argument, a rational <<numerator, denominator>>
    i,            \* pagerank: the loop counter
    ranks,        \* pagerank: ranks, node identifier -> rational
    max_nodes,    \* print_ranks: argument
    stdout        \* print_ranks: the lines printed

graphVars == <<directed, _nodes, _edges, _adjacency>>
histVars == <<call, ret, old, added>>
prVars == <<pc, N, num_iterations, damping_factor, i, ranks, max_nodes, stdout>>
vars == <<directed, _nodes, _edges, _adjacency, call, ret, old, added,
          pc, N, num_iterations, damping_factor, i, ranks, max_nodes, stdout>>

---------------------------------------------------------------------------
(* Bounds of the model. *)

\* node identifiers passed to the graph are 1..MaxId
MaxId == 3
\* attribute dictionaries are 0..MaxAttr
MaxAttr == 1
\* at most MaxEdges add_edge calls succeed on one graph
MaxEdges == 2
\* keys given to `in` and [] are scalars and tuples of at most MaxKeyLen items
MaxKeyLen == 3

Ids == 1 .. MaxId
Attrs == 0 .. MaxAttr

---------------------------------------------------------------------------
(* Exceptions.  Every error of graph.py is a GraphError; the kind of error *)
(* is told by its message.                                                 *)

MsgNodeExists == "Node already exists"
MsgNodeNotFound == "Node not found"
MsgEdgeExists == "Edge already exists"
MsgEdgeNotFound == "Edge not found"
MsgSelfLoop == "Self-loops are not allowed in undirected graphs"
MsgKeyNotFound == "Key not found"

\* a normal return of `value`
Return(value) == [exc |-> "none", message |-> "", value |-> <<value>>]
\* raise GraphError(message)
GraphError(message) == [exc |-> "GraphError", message |-> message, value |-> <<>>]
\* an exception of Python itself
PyError(kind) == [exc |-> kind, message |-> "", value |-> <<>>]
None == "None"

Raised(r, message) == r.exc = "GraphError" /\ r.message = message
Returned(r) == r.exc = "none"
ValueOf(r) == r.value[1]

---------------------------------------------------------------------------
(* Node and Edge. *)

Node(identifier, attributes) == [_id |-> identifier, _attributes |-> attributes]

Edge(node1, node2, attributes) ==
    [_node1 |-> node1, _node2 |-> node2, _attributes |-> attributes]

---------------------------------------------------------------------------
(* BaseGraph. *)

BaseGraph_init == [_nodes |-> <<>>, _edges |-> <<>>, _adjacency |-> <<>>]

\* the keys of the dict self._nodes
NodeKeys(self) == {self._nodes[k]._id : k \in DOMAIN self._nodes}

\* `node_id in self._nodes`
HasNode(self, node_id) == node_id \in NodeKeys(self)

\* self._nodes[node_id]
NodeAt(self, node_id) ==
    self._nodes[CHOOSE k \in DOMAIN self._nodes : self._nodes[k]._id = node_id]

len(self) == Len(self._nodes)

add_node_overwrite(self, node_id, prop) ==
    [self |-> [self EXCEPT
                 !._nodes = IF HasNode(self, node_id)
                            THEN [k \in DOMAIN self._nodes |->
                                    IF self._nodes[k]._id = node_id
                                    THEN Node(node_id, prop) ELSE self._nodes[k]]
                            ELSE Append(self._nodes, Node(node_id, prop)),
                 !._adjacency = [n \in NodeKeys(self) \cup {node_id} |->
                                   IF n = node_id THEN <<>> ELSE self._adjacency[n]]],
     ret |-> Return(None)]

add_node(self, node_id, prop) ==
    IF HasNode(self, node_id)
    THEN [self |-> self, ret |-> GraphError(MsgNodeExists)]
    ELSE [self |-> [self EXCEPT
                      !._nodes = Append(self._nodes, Node(node_id, prop)),
                      !._adjacency = [n \in NodeKeys(self) \cup {node_id} |->
                                        IF n = node_id THEN <<>> ELSE self._adjacency[n]]],
          ret |-> Return(None)]

node(self, node_id) ==
    IF ~HasNode(self, node_id)
    THEN GraphError(MsgNodeNotFound)
    ELSE Return(NodeAt(self, node_id))


---------------------------------------------------------------------------
(* Python's tuple order and sorted().  A list to sort is given decorated:  *)
(* a sequence of [key |-> tuple of integers, item |-> the element].        *)

\* a < b for tuples of integers: lexicographic
RECURSIVE TupleLess(_, _)
TupleLess(a, b) ==
    IF a = <<>> THEN b # <<>>
    ELSE IF b = <<>> THEN FALSE
    ELSE IF a[1] # b[1] THEN a[1] < b[1]
    ELSE TupleLess(Tail(a), Tail(b))

\* s is sorted; x goes after every element whose key is not greater (stable)
RECURSIVE Insort(_, _)
Insort(s, x) ==
    IF s = <<>> THEN <<x>>
    ELSE IF TupleLess(x.key, s[1].key) THEN <<x>> \o s
    ELSE <<s[1]>> \o Insort(Tail(s), x)

RECURSIVE SortDecorated(_)
SortDecorated(s) ==
    IF s = <<>> THEN <<>>
    ELSE Insort(SortDecorated(SubSeq(s, 1, Len(s) - 1)), s[Len(s)])

\* sorted(iterable, key=...): the items in ascending order of key, stable
sorted(s) == LET d == SortDecorated(s) IN [k \in DOMAIN d |-> d[k].item]

---------------------------------------------------------------------------
(* BaseGraph, continued. *)

nodes(self) ==
    LET ids == sorted([k \in DOMAIN self._nodes |->
                         [key |-> <<self._nodes[k]._id>>, item |-> self._nodes[k]._id]])
    IN  [k \in DOMAIN ids |-> NodeAt(self, ids[k])]

\* the first edge of self._edges from node1_id to node2_id, 0 when there is none
\* add_edge that creates the endpoints it does not find
BaseGraph_add_edge_autocreate(self, node1_id, node2_id, prop) ==
    LET s1 == add_node_overwrite(self, node1_id, 0).self
        g1 == IF HasNode(self, node1_id) THEN self ELSE s1
        g2 == IF HasNode(g1, node2_id) THEN g1 ELSE add_node_overwrite(g1, node2_id, 0).self
    IN  [self |-> [g2 EXCEPT
                     !._edges = Append(g2._edges, Edge(node1_id, node2_id, prop)),
                     !._adjacency[node1_id] = Append(g2._adjacency[node1_id], node2_id)],
         ret |-> Return(None)]

RECURSIVE FindEdge(_, _, _, _)
FindEdge(self, node1_id, node2_id, k) ==
    IF k > Len(self._edges) THEN 0
    ELSE IF self._edges[k]._node1 = node1_id /\ self._edges[k]._node2 = node2_id THEN k
    ELSE FindEdge(self, node1_id, node2_id, k + 1)

\* add_edge without the check for an existing edge
BaseGraph_add_edge_noDuplicateCheck(self, node1_id, node2_id, prop) ==
    IF ~HasNode(self, node1_id) THEN [self |-> self, ret |-> GraphError(MsgNodeNotFound)]
    ELSE IF ~HasNode(self, node2_id) THEN [self |-> self, ret |-> GraphError(MsgNodeNotFound)]
    ELSE [self |-> [self EXCEPT
                      !._edges = Append(self._edges, Edge(node1_id, node2_id, prop)),
                      !._adjacency[node1_id] = Append(self._adjacency[node1_id], node2_id)],
          ret |-> Return(None)]

\* add_edge that stores the edge and leaves the adjacency list as it was
BaseGraph_add_edge_noAdjacency(self, node1_id, node2_id, prop) ==
    IF ~HasNode(self, node1_id) THEN [self |-> self, ret |-> GraphError(MsgNodeNotFound)]
    ELSE IF ~HasNode(self, node2_id) THEN [self |-> self, ret |-> GraphError(MsgNodeNotFound)]
    ELSE IF FindEdge(self, node1_id, node2_id, 1) # 0
    THEN [self |-> self, ret |-> GraphError(MsgEdgeExists)]
    ELSE [self |-> [self EXCEPT
                      !._edges = Append(self._edges, Edge(node1_id, node2_id, prop))],
          ret |-> Return(None)]

BaseGraph_add_edge(self, node1_id, node2_id, prop) ==
    IF ~HasNode(self, node1_id) THEN [self |-> self, ret |-> GraphError(MsgNodeNotFound)]
    ELSE IF ~HasNode(self, node2_id) THEN [self |-> self, ret |-> GraphError(MsgNodeNotFound)]
    ELSE IF FindEdge(self, node1_id, node2_id, 1) # 0
    THEN [self |-> self, ret |-> GraphError(MsgEdgeExists)]
    ELSE [self |-> [self EXCEPT
                      !._edges = Append(self._edges, Edge(node1_id, node2_id, prop)),
                      !._adjacency[node1_id] = Append(self._adjacency[node1_id], node2_id)],
          ret |-> Return(None)]

edge(self, node1_id, node2_id) ==
    LET k == FindEdge(self, node1_id, node2_id, 1)
    IN  IF k # 0 THEN Return(self._edges[k]) ELSE GraphError(MsgEdgeNotFound)

\* edges sorted by the source identifier alone
edges_bySource(self) ==
    sorted([k \in DOMAIN self._edges |->
              [key |-> <<self._edges[k]._node1>>, item |-> self._edges[k]]])

edges(self) ==
    sorted([k \in DOMAIN self._edges |->
              [key |-> <<self._edges[k]._node1, self._edges[k]._node2>>,
               item |-> self._edges[k]]])

---------------------------------------------------------------------------
(* Keys of `key in g` and g[key].  A key is a scalar (tuple = FALSE, items *)
(* holds the one value) or a tuple of values.                              *)

Scalar(v) == [tuple |-> FALSE, items |-> <<v>>]
Tuple(t) == [tuple |-> TRUE, items |-> t]

\* key[n]: TypeError on a scalar (an int is not subscriptable), IndexError
\* past the end of a tuple
Subscript(key, n) ==
    IF ~key.tuple THEN PyError("TypeError")
    ELSE IF n >= Len(key.items) THEN PyError("IndexError")
    ELSE Return(key.items[n + 1])

\* `key in self._nodes` for a key of either shape: identifiers are scalars
KeyInNodes(self, key) == ~key.tuple /\ HasNode(self, key.items[1])

\* self.edge(key[a], key[b]), the arguments evaluated left to right
EdgeBySubscript(self, key, a, b) ==
    LET x == Subscript(key, a)
        y == Subscript(key, b)
    IN  IF ~Returned(x) THEN x
        ELSE IF ~Returned(y) THEN y
        ELSE edge(self, ValueOf(x), ValueOf(y))

getitem(self, key) ==
    IF KeyInNodes(self, key) THEN node(self, key.items[1])
    ELSE LET e == EdgeBySubscript(self, key, 0, 1)
         IN  IF Returned(e) THEN e ELSE GraphError(MsgKeyNotFound)

BaseGraph_contains(self, item) ==
    IF KeyInNodes(self, item) THEN Return(TRUE)
    ELSE LET e == EdgeBySubscript(self, item, 0, 1)
         IN  IF Returned(e) THEN Return(TRUE) ELSE Return(FALSE)

---------------------------------------------------------------------------
(* UndirectedGraph. *)

\* an edge between the two nodes in either direction, 0 when there is none
RECURSIVE FindEitherEdge(_, _, _, _)
FindEitherEdge(self, node1_id, node2_id, k) ==
    IF k > Len(self._edges) THEN 0
    ELSE IF \/ self._edges[k]._node1 = node1_id /\ self._edges[k]._node2 = node2_id
            \/ self._edges[k]._node1 = node2_id /\ self._edges[k]._node2 = node1_id
         THEN k
    ELSE FindEitherEdge(self, node1_id, node2_id, k + 1)

\* the check of the second endpoint left out
UndirectedGraph_add_edge_node2Unchecked(self, node1_id, node2_id, prop) ==
    IF node1_id = node2_id THEN [self |-> self, ret |-> GraphError(MsgSelfLoop)]
    ELSE IF ~HasNode(self, node1_id) THEN [self |-> self, ret |-> GraphError(MsgNodeNotFound)]
    ELSE IF FindEitherEdge(self, node1_id, node2_id, 1) # 0
    THEN [self |-> self, ret |-> GraphError(MsgEdgeExists)]
    ELSE [self |-> [self EXCEPT
                      !._edges = self._edges \o <<Edge(node1_id, node2_id, prop),
                                                  Edge(node2_id, node1_id, prop)>>,
                      !._adjacency =
                          [n \in DOMAIN self._adjacency \cup {node2_id} |->
                             IF n = node1_id THEN Append(self._adjacency[n], node2_id)
                             ELSE IF n \notin DOMAIN self._adjacency THEN <<node1_id>>
                             ELSE IF n = node2_id THEN Append(self._adjacency[n], node1_id)
                             ELSE self._adjacency[n]]],
          ret |-> Return(None)]

\* the second adjacency entry left out
UndirectedGraph_add_edge_oneAdjacency(self, node1_id, node2_id, prop) ==
    IF node1_id = node2_id THEN [self |-> self, ret |-> GraphError(MsgSelfLoop)]
    ELSE IF ~HasNode(self, node1_id) THEN [self |-> self, ret |-> GraphError(MsgNodeNotFound)]
    ELSE IF ~HasNode(self, node2_id) THEN [self |-> self, ret |-> GraphError(MsgNodeNotFound)]
    ELSE IF FindEitherEdge(self, node1_id, node2_id, 1) # 0
    THEN [self |-> self, ret |-> GraphError(MsgEdgeExists)]
    ELSE [self |-> [self EXCEPT
                      !._edges = self._edges \o <<Edge(node1_id, node2_id, prop),
                                                  Edge(node2_id, node1_id, prop)>>,
                      !._adjacency[node1_id] = Append(self._adjacency[node1_id], node2_id)],
          ret |-> Return(None)]

\* the self-loop check made after the endpoint checks
UndirectedGraph_add_edge_selfLoopCheckedLast(self, node1_id, node2_id, prop) ==
    IF ~HasNode(self, node1_id) THEN [self |-> self, ret |-> GraphError(MsgNodeNotFound)]
    ELSE IF ~HasNode(self, node2_id) THEN [self |-> self, ret |-> GraphError(MsgNodeNotFound)]
    ELSE IF node1_id = node2_id THEN [self |-> self, ret |-> GraphError(MsgSelfLoop)]
    ELSE IF FindEitherEdge(self, node1_id, node2_id, 1) # 0
    THEN [self |-> self, ret |-> GraphError(MsgEdgeExists)]
    ELSE [self |-> [self EXCEPT
                      !._edges = self._edges \o <<Edge(node1_id, node2_id, prop),
                                                  Edge(node2_id, node1_id, prop)>>,
                      !._adjacency =
                          [n \in DOMAIN self._adjacency |->
                             IF n = node1_id THEN Append(self._adjacency[n], node2_id)
                             ELSE IF n = node2_id THEN Append(self._adjacency[n], node1_id)
                             ELSE self._adjacency[n]]],
          ret |-> Return(None)]

UndirectedGraph_add_edge(self, node1_id, node2_id, prop) ==
    IF node1_id = node2_id THEN [self |-> self, ret |-> GraphError(MsgSelfLoop)]
    ELSE IF ~HasNode(self, node1_id) THEN [self |-> self, ret |-> GraphError(MsgNodeNotFound)]
    ELSE IF ~HasNode(self, node2_id) THEN [self |-> self, ret |-> GraphError(MsgNodeNotFound)]
    ELSE IF FindEitherEdge(self, node1_id, node2_id, 1) # 0
    THEN [self |-> self, ret |-> GraphError(MsgEdgeExists)]
    ELSE [self |-> [self EXCEPT
                      !._edges = self._edges \o <<Edge(node1_id, node2_id, prop),
                                                  Edge(node2_id, node1_id, prop)>>,
                      !._adjacency =
                          [n \in DOMAIN self._adjacency |->
                             IF n = node1_id THEN Append(self._adjacency[n], node2_id)
                             ELSE IF n = node2_id THEN Append(self._adjacency[n], node1_id)
                             ELSE self._adjacency[n]]],
          ret |-> Return(None)]

degree(self, node_id) ==
    IF ~HasNode(self, node_id) THEN GraphError(MsgNodeNotFound)
    ELSE Return(Len(self._adjacency[node_id]))

UndirectedGraph_contains(self, item) ==
    IF KeyInNodes(self, item) THEN Return(TRUE)
    ELSE LET e == EdgeBySubscript(self, item, 0, 1)
         IN  IF Returned(e) THEN Return(TRUE)
             ELSE LET f == EdgeBySubscript(self, item, 1, 0)
                  IN  IF Returned(f) THEN Return(TRUE) ELSE Return(FALSE)

---------------------------------------------------------------------------
(* DirectedGraph. *)

\* the count of the edges that start in node_id
RECURSIVE CountInto_source(_, _, _)
CountInto_source(self, node_id, k) ==
    IF k = 0 THEN 0
    ELSE CountInto_source(self, node_id, k - 1)
         + (IF self._edges[k]._node1 = node_id THEN 1 ELSE 0)

\* the number of edges among the first k of self._edges that end in node_id
RECURSIVE CountInto(_, _, _)
CountInto(self, node_id, k) ==
    IF k = 0 THEN 0
    ELSE CountInto(self, node_id, k - 1)
         + (IF self._edges[k]._node2 = node_id THEN 1 ELSE 0)

in_degree(self, node_id) ==
    IF ~HasNode(self, node_id) THEN GraphError(MsgNodeNotFound)
    ELSE Return(CountInto(self, node_id, Len(self._edges)))

out_degree(self, node_id) ==
    IF ~HasNode(self, node_id) THEN GraphError(MsgNodeNotFound)
    ELSE Return(Len(self._adjacency[node_id]))

---------------------------------------------------------------------------
(* Method dispatch on the class of the object. *)

add_edge(isDirected, self, node1_id, node2_id, prop) ==
    IF isDirected THEN BaseGraph_add_edge(self, node1_id, node2_id, prop)
    ELSE UndirectedGraph_add_edge(self, node1_id, node2_id, prop)

contains(isDirected, self, item) ==
    IF isDirected THEN BaseGraph_contains(self, item)
    ELSE UndirectedGraph_contains(self, item)

---------------------------------------------------------------------------
(* The graph under construction and the calls made on it. *)

self == [_nodes |-> _nodes, _edges |-> _edges, _adjacency |-> _adjacency]

\* the tuples of at most n identifiers
RECURSIVE TuplesUpTo(_)
TuplesUpTo(n) ==
    IF n = 0 THEN {<<>>}
    ELSE LET shorter == TuplesUpTo(n - 1)
         IN  shorter \cup {Append(t, v) : t \in {u \in shorter : Len(u) = n - 1}, v \in Ids}

Keys == {Scalar(v) : v \in Ids} \cup {Tuple(t) : t \in TuplesUpTo(MaxKeyLen)}

NoKey == Tuple(<<>>)

\* the number of add_edge calls that have succeeded on the graph
Relations(isDirected, g) == IF isDirected THEN Len(g._edges) ELSE Len(g._edges) \div 2

prIdle ==
    /\ pc = "idle" /\ N = 0 /\ num_iterations = 0
    /\ damping_factor = <<0, 1>> /\ i = 0 /\ ranks = <<>>
    /\ max_nodes = 0 /\ stdout = <<>>

InitGraph ==
    /\ directed \in BOOLEAN
    /\ _nodes = BaseGraph_init._nodes
    /\ _edges = BaseGraph_init._edges
    /\ _adjacency = BaseGraph_init._adjacency
    /\ call = [op |-> "__init__", key |-> NoKey, prop |-> 0]
    /\ ret = Return(None)
    /\ old = BaseGraph_init
    /\ added = 0

Init == InitGraph /\ prIdle

\* the call returns or raises r.ret and leaves the object as r.self
Called(op, key, prop, r) ==
    /\ _nodes' = r.self._nodes
    /\ _edges' = r.self._edges
    /\ _adjacency' = r.self._adjacency
    /\ call' = [op |-> op, key |-> key, prop |-> prop]
    /\ ret' = r.ret
    /\ old' = self
    /\ UNCHANGED directed

AddNode ==
    \E node_id \in Ids, prop \in Attrs :
        LET r == add_node(self, node_id, prop)
        IN  /\ Called("add_node", Scalar(node_id), prop, r)
            /\ added' = IF Returned(r.ret) THEN added + 1 ELSE added
            /\ UNCHANGED prVars

AddEdge ==
    \E node1_id \in Ids, node2_id \in Ids, prop \in Attrs :
        LET r == add_edge(directed, self, node1_id, node2_id, prop)
        IN  /\ Relations(directed, r.self) <= MaxEdges
            /\ Called("add_edge", Tuple(<<node1_id, node2_id>>), prop, r)
            /\ UNCHANGED <<added, prVars>>

Nodes ==
    /\ Called("nodes", NoKey, 0, [self |-> self, ret |-> Return(nodes(self))])
    /\ UNCHANGED <<added, prVars>>

Edges ==
    /\ Called("edges", NoKey, 0, [self |-> self, ret |-> Return(edges(self))])
    /\ UNCHANGED <<added, prVars>>

Next == AddNode \/ AddEdge \/ Nodes \/ Edges

Spec == Init /\ [][Next]_vars

---------------------------------------------------------------------------
(* Numbers of pagerank.  A Python float is modelled by the rational it     *)
(* stands for, <<numerator, denominator>> in lowest terms with a positive  *)
(* denominator: the arithmetic is exact, rounding is not modelled.         *)

RECURSIVE GCD(_, _)
GCD(a, b) == IF b = 0 THEN a ELSE GCD(b, a % b)

Abs(a) == IF a < 0 THEN -a ELSE a

Rat(n, d) ==
    LET g == GCD(Abs(n), d)
    IN  IF n = 0 THEN <<0, 1>> ELSE <<n \div g, d \div g>>

Zero == <<0, 1>>
One == <<1, 1>>

\* p + q
RAdd(p, q) ==
    LET g == GCD(p[2], q[2])
        l == (p[2] \div g) * q[2]
    IN  Rat(p[1] * (l \div p[2]) + q[1] * (l \div q[2]), l)

\* p - q
RSub(p, q) == RAdd(p, <<-q[1], q[2]>>)

\* p * q
RMul(p, q) ==
    LET g1 == GCD(Abs(p[1]), q[2])
        g2 == GCD(Abs(q[1]), p[2])
    IN  IF p[1] = 0 \/ q[1] = 0 THEN Zero
        ELSE <<(p[1] \div g1) * (q[1] \div g2), (p[2] \div g2) * (q[2] \div g1)>>

\* p / n for an integer n > 0
RDiv(p, n) == RMul(p, <<1, n>>)

\* a < b
RLess(p, q) == RSub(p, q)[1] < 0

---------------------------------------------------------------------------
(* pagerank(digraph, num_iterations, damping_factor). *)

\* damping_factor=.85
DefaultDamping == <<17, 20>>

\* the identifiers of a list of nodes
ElementsOfIds(ns) == {ns[k]._id : k \in DOMAIN ns}

\* [edge.nodes()[0].identifier() for edge in es if edge.nodes()[1].identifier() == node_id]
RECURSIVE SelectSources(_, _)
SelectSources(es, node_id) ==
    IF es = <<>> THEN <<>>
    ELSE (IF es[1]._node2 = node_id THEN <<es[1]._node1>> ELSE <<>>)
         \o SelectSources(Tail(es), node_id)

\* ranks = {node.identifier(): 1/N for node in digraph.nodes()}
InitialRanks(digraph) ==
    [n \in ElementsOfIds(nodes(digraph)) |-> Rat(1, len(digraph))]

\* the sum of rk[ids[1]], ..., rk[ids[k]] for the nodes among them that have no out-edge
RECURSIVE DanglingUpTo(_, _, _, _)
DanglingUpTo(digraph, rk, ids, k) ==
    IF k = 0 THEN Zero
    ELSE LET rest == DanglingUpTo(digraph, rk, ids, k - 1)
         IN  IF ValueOf(out_degree(digraph, ids[k])) = 0
             THEN RAdd(rest, rk[ids[k]])
             ELSE rest

\* the mass of the nodes without out-edges dropped
dangling_sum_dropped(digraph, rk) == Zero

\* dangling_sum after the first loop of a round
dangling_sum(digraph, rk) ==
    LET ns == nodes(digraph)
    IN  DanglingUpTo(digraph, rk, [k \in DOMAIN ns |-> ns[k]._id], Len(ns))

\* in_links taken along the edges that leave node_id: their destinations
in_links_reversed(digraph, node_id) ==
    LET es == edges(digraph)
    IN  SelectSources([k \in DOMAIN es |-> Edge(es[k]._node2, es[k]._node1, 0)], node_id)

\* in_links of node_id: the sources of the edges of digraph.edges() that end in it
in_links(digraph, node_id) ==
    LET es == edges(digraph)
    IN  SelectSources(es, node_id)

\* rank_sum after in_links[1 .. k]
RECURSIVE RankSumUpTo(_, _, _, _)
RankSumUpTo(digraph, rk, links, k) ==
    IF k = 0 THEN Zero
    ELSE LET rest == RankSumUpTo(digraph, rk, links, k - 1)
             degree_out == ValueOf(out_degree(digraph, links[k]))
         IN  IF degree_out > 0
             THEN RAdd(rest, RDiv(rk[links[k]], degree_out))
             ELSE rest

rank_sum(digraph, rk, node_id) ==
    LET links == in_links(digraph, node_id)
    IN  RankSumUpTo(digraph, rk, links, Len(links))

\* the update without the share dangling_sum/N of the nodes without out-edges
new_rank_noDanglingShare(digraph, rk, n, damping, dangling, node_id) ==
    RAdd(RDiv(RSub(One, damping), n), RMul(damping, rank_sum(digraph, rk, node_id)))

\* the update without its (1-damping_factor)/N term
new_rank_noTeleport(digraph, rk, n, damping, dangling, node_id) ==
    RMul(damping, RAdd(rank_sum(digraph, rk, node_id), RDiv(dangling, n)))

\* new_ranks[node_id] = (1-damping_factor)/N + damping_factor*(rank_sum+(dangling_sum/N))
new_rank(digraph, rk, n, damping, dangling, node_id) ==
    RAdd(RDiv(RSub(One, damping), n),
         RMul(damping, RAdd(rank_sum(digraph, rk, node_id), RDiv(dangling, n))))

\* new_ranks after the second loop of a round has visited ids[1 .. k]; every rank
\* is read from rk, the mapping of the round before
RECURSIVE VisitUpTo(_, _, _, _, _, _, _)
VisitUpTo(digraph, rk, n, damping, dangling, ids, k) ==
    IF k = 0 THEN <<>>
    ELSE (ids[k] :> new_rank(digraph, rk, n, damping, dangling, ids[k]))
         @@ VisitUpTo(digraph, rk, n, damping, dangling, ids, k - 1)

\* the ranks written into the mapping they are read from
RECURSIVE VisitInPlaceUpTo(_, _, _, _, _, _, _)
VisitInPlaceUpTo(digraph, rk, n, damping, dangling, ids, k) ==
    IF k = 0 THEN rk
    ELSE LET cur == VisitInPlaceUpTo(digraph, rk, n, damping, dangling, ids, k - 1)
         IN  (ids[k] :> new_rank(digraph, cur, n, damping, dangling, ids[k])) @@ cur

\* a round that updates ranks in place, without new_ranks
Round_inPlace(digraph, rk, n, damping) ==
    LET ns == nodes(digraph)
        ids == [k \in DOMAIN ns |-> ns[k]._id]
    IN  VisitInPlaceUpTo(digraph, rk, n, damping, dangling_sum(digraph, rk), ids, Len(ids))

\* one pass of the body of `for i in range(num_iterations)`: new_ranks
Round(digraph, rk, n, damping) ==
    LET ns == nodes(digraph)
        ids == [k \in DOMAIN ns |-> ns[k]._id]
    IN  VisitUpTo(digraph, rk, n, damping, dangling_sum(digraph, rk), ids, Len(ids))

---------------------------------------------------------------------------
(* pagerank runs on a directed graph that add_node and add_edge have built. *)

\* the graphs given to pagerank have at most PRMaxNodes nodes
PRMaxNodes == 3
\* and at most PRMaxEdges edges
PRMaxEdges == 3
\* num_iterations is at most MaxIterations
MaxIterations == 2

\* the damping factors given to pagerank
Dampings == {DefaultDamping, <<1, 2>>}

\* add_node(1), ..., add_node(n) on a new DirectedGraph
RECURSIVE WithNodes(_)
WithNodes(n) ==
    IF n = 0 THEN BaseGraph_init ELSE add_node(WithNodes(n - 1), n, 0).self

\* then add_edge(a, b) for the pairs of `pairs` among the first k of 1..n x 1..n
RECURSIVE WithEdges(_, _, _)
WithEdges(n, pairs, k) ==
    IF k = 0 THEN WithNodes(n)
    ELSE LET g == WithEdges(n, pairs, k - 1)
             a == ((k - 1) \div n) + 1
             b == ((k - 1) % n) + 1
         IN  IF <<a, b>> \in pairs THEN add_edge(TRUE, g, a, b, 0).self ELSE g

BuiltGraphs ==
    {WithEdges(n, pairs, n * n) :
        n \in 0 .. PRMaxNodes,
        pairs \in {s \in SUBSET ((1 .. PRMaxNodes) \X (1 .. PRMaxNodes)) :
                     Cardinality(s) <= PRMaxEdges}}

InitPR ==
    /\ directed = TRUE
    /\ \E g \in BuiltGraphs :
          /\ _nodes = g._nodes
          /\ _edges = g._edges
          /\ _adjacency = g._adjacency
          /\ old = g
          /\ added = len(g)
    /\ call = [op |-> "pagerank", key |-> NoKey, prop |-> 0]
    /\ ret = Return(None)
    /\ pc = "start"
    /\ num_iterations \in 0 .. MaxIterations
    /\ damping_factor \in Dampings
    /\ N = 0 /\ i = 0 /\ ranks = <<>>
    /\ max_nodes = 0 /\ stdout = <<>>

\* N=len(digraph); ranks={...}
PagerankStart ==
    /\ pc = "start"
    /\ N' = len(self)
    /\ ranks' = InitialRanks(self)
    /\ i' = 0
    /\ pc' = "loop"
    /\ UNCHANGED <<graphVars, histVars, num_iterations, damping_factor, max_nodes, stdout>>

\* one iteration of the loop, ending in ranks=new_ranks
PagerankRound ==
    /\ pc = "loop" /\ i < num_iterations
    /\ ranks' = Round(self, ranks, N, damping_factor)
    /\ i' = i + 1
    /\ UNCHANGED <<graphVars, histVars, pc, N, num_iterations, damping_factor, max_nodes, stdout>>

\* return ranks
PagerankReturn ==
    /\ pc = "loop" /\ i = num_iterations
    /\ pc' = "done"
    /\ ret' = Return(ranks)
    /\ UNCHANGED <<graphVars, call, old, added, N, num_iterations, damping_factor, i, ranks,
                   max_nodes, stdout>>

NextPR == PagerankStart \/ PagerankRound \/ PagerankReturn

SpecPR == InitPR /\ [][NextPR]_vars

---------------------------------------------------------------------------
(* pagerank on the graphs of pagerank_test.py, with the identifiers the     *)
(* tests use, for up to LongIterations rounds.                              *)

\* num_iterations is at most LongIterations on these graphs
LongIterations == 21

\* test_single_node: g.add_node(42)
SingleNode == add_node(BaseGraph_init, 42, 0).self

\* add_node(0), ..., add_node(n - 1) on a new DirectedGraph
RECURSIVE NodesFromZero(_)
NodesFromZero(n) ==
    IF n = 0 THEN BaseGraph_init ELSE add_node(NodesFromZero(n - 1), n - 1, 0).self

\* test_triangle_graph: 0->1, 1->2, 2->0
Triangle ==
    add_edge(TRUE, add_edge(TRUE, add_edge(TRUE, NodesFromZero(3), 0, 1, 0).self,
                            1, 2, 0).self, 2, 0, 0).self

\* test_two_node_cycle: 0->1, 1->0
TwoNodeCycle ==
    add_edge(TRUE, add_edge(TRUE, NodesFromZero(2), 0, 1, 0).self, 1, 0, 0).self

SymmetricGraphs == {SingleNode, Triangle, TwoNodeCycle}

\* pagerank.pagerank(g, num_iterations) is about to be called on the graph g
CalledOn(g) ==
    /\ directed = TRUE
    /\ _nodes = g._nodes
    /\ _edges = g._edges
    /\ _adjacency = g._adjacency
    /\ old = g
    /\ added = len(g)
    /\ call = [op |-> "pagerank", key |-> NoKey, prop |-> 0]
    /\ ret = Return(None)
    /\ pc = "start"
    /\ N = 0 /\ i = 0 /\ ranks = <<>>
    /\ max_nodes = 0 /\ stdout = <<>>

InitCases ==
    /\ \E g \in SymmetricGraphs : CalledOn(g)
    /\ num_iterations \in 0 .. LongIterations
    /\ damping_factor \in Dampings

SpecCases == InitCases /\ [][NextPR]_vars

---------------------------------------------------------------------------
(* pagerank in floating point.  The rationals above overflow after a few    *)
(* rounds on a graph whose ranks are not uniform, and they are not what a   *)
(* float holds.  Here a float is modelled by an enclosure <<lo, hi>>, in    *)
(* units of 1/Scale: the float is some number of [lo/Scale, hi/Scale].      *)
(* Every operation computes the exact bounds of its result, rounds them     *)
(* outwards to the grid and widens them by one unit, which is far more      *)
(* than the rounding error of the float operation (below 1e-15 here).       *)

Scale == 10 ^ 6

\* the least integer not below a / n, n > 0
CeilDiv(a, n) == -((-a) \div n)

\* the float of an integer
FInt(n) == <<n * Scale, n * Scale>>

\* the float nearest to the rational q
FFromRat(q) == <<(q[1] * Scale) \div q[2] - 1, CeilDiv(q[1] * Scale, q[2]) + 1>>

\* p + q
FAdd(p, q) == <<p[1] + q[1] - 1, p[2] + q[2] + 1>>

\* p / n for an integer n > 0
FDiv(p, n) == <<p[1] \div n - 1, CeilDiv(p[2], n) + 1>>

\* damping * p, damping the float of a rational q > 0
FMul(q, p) == <<(q[1] * p[1]) \div q[2] - 1, CeilDiv(q[1] * p[2], q[2]) + 1>>

\* p < q for certain: every number of p is below every number of q
FLess(p, q) == p[2] < q[1]

\* ranks = {node.identifier(): 1/N for node in digraph.nodes()}
FInitialRanks(digraph) ==
    [n \in ElementsOfIds(nodes(digraph)) |-> FDiv(FInt(1), len(digraph))]

RECURSIVE FDanglingUpTo(_, _, _, _)
FDanglingUpTo(digraph, rk, ids, k) ==
    IF k = 0 THEN FInt(0)
    ELSE LET rest == FDanglingUpTo(digraph, rk, ids, k - 1)
         IN  IF ValueOf(out_degree(digraph, ids[k])) = 0
             THEN FAdd(rest, rk[ids[k]])
             ELSE rest

Fdangling_sum(digraph, rk) ==
    LET ns == nodes(digraph)
    IN  FDanglingUpTo(digraph, rk, [k \in DOMAIN ns |-> ns[k]._id], Len(ns))

RECURSIVE FRankSumUpTo(_, _, _, _)
FRankSumUpTo(digraph, rk, links, k) ==
    IF k = 0 THEN FInt(0)
    ELSE LET rest == FRankSumUpTo(digraph, rk, links, k - 1)
             degree_out == ValueOf(out_degree(digraph, links[k]))
         IN  IF degree_out > 0
             THEN FAdd(rest, FDiv(rk[links[k]], degree_out))
             ELSE rest

Frank_sum(digraph, rk, node_id) ==
    LET links == in_links(digraph, node_id)
    IN  FRankSumUpTo(digraph, rk, links, Len(links))

\* new_ranks[node_id] = (1-damping_factor)/N + damping_factor*(rank_sum+(dangling_sum/N))
Fnew_rank(digraph, rk, n, damping, dangling, node_id) ==
    FAdd(FDiv(FFromRat(RSub(One, damping)), n),
         FMul(damping, FAdd(Frank_sum(digraph, rk, node_id), FDiv(dangling, n))))

FRound(digraph, rk, n, damping) ==
    LET dangling == Fdangling_sum(digraph, rk)
    IN  [node_id \in ElementsOfIds(nodes(digraph)) |->
            Fnew_rank(digraph, rk, n, damping, dangling, node_id)]

\* test_dangling_node: 0->1, 1->2
Chain == add_edge(TRUE, add_edge(TRUE, NodesFromZero(3), 0, 1, 0).self, 1, 2, 0).self

\* test_doctest_example: 0->1, 0->2, 1->0
DoctestExample ==
    add_edge(TRUE, add_edge(TRUE, add_edge(TRUE, NodesFromZero(3), 0, 1, 0).self,
                            0, 2, 0).self, 1, 0, 0).self

TestGraphs == SymmetricGraphs \cup {Chain, DoctestExample}

InitFloat ==
    /\ \E g \in TestGraphs : CalledOn(g)
    /\ num_iterations \in 0 .. LongIterations
    /\ damping_factor \in Dampings

FloatStart ==
    /\ pc = "start"
    /\ N' = len(self)
    /\ ranks' = FInitialRanks(self)
    /\ i' = 0
    /\ pc' = "loop"
    /\ UNCHANGED <<graphVars, histVars, num_iterations, damping_factor, max_nodes, stdout>>

FloatRound ==
    /\ pc = "loop" /\ i < num_iterations
    /\ ranks' = FRound(self, ranks, N, damping_factor)
    /\ i' = i + 1
    /\ UNCHANGED <<graphVars, histVars, pc, N, num_iterations, damping_factor, max_nodes, stdout>>

FloatReturn ==
    /\ pc = "loop" /\ i = num_iterations
    /\ pc' = "done"
    /\ ret' = Return(ranks)
    /\ UNCHANGED <<graphVars, call, old, added, N, num_iterations, damping_factor, i, ranks,
                   max_nodes, stdout>>

NextFloat == FloatStart \/ FloatRound \/ FloatReturn

SpecFloat == InitFloat /\ [][NextFloat]_vars

---------------------------------------------------------------------------
(* print_ranks(ranks, max_nodes).  The lines printed are modelled by        *)
(* records: the text of a number is the number it shows, in units of 1e-5.  *)

\* k more decimal digits of rem / d after acc: <<the digits, the remainder>>
RECURSIVE DecimalDigits(_, _, _, _)
DecimalDigits(rem, d, k, acc) ==
    IF k = 0 THEN <<acc, rem>>
    ELSE DecimalDigits((rem * 10) % d, d, k - 1, acc * 10 + (rem * 10) \div d)

\* round(x, 5) and f'{x:.5f}' for x >= 0: the multiple of 1e-5 nearest to x, the
\* even one of the two when x is half-way; the result counts hundred-thousandths
Round5(q) ==
    LET t == DecimalDigits(q[1] % q[2], q[2], 5, q[1] \div q[2])
    IN  IF 2 * t[2] > q[2] \/ (2 * t[2] = q[2] /\ t[1] % 2 = 1)
        THEN t[1] + 1
        ELSE t[1]

\* ranks.keys(): the keys in the order pagerank inserted them, that of nodes()
RECURSIVE KeysOf(_)
KeysOf(S) ==
    IF S = {} THEN <<>>
    ELSE LET x == CHOOSE a \in S : \A b \in S : a <= b
         IN  <<x>> \o KeysOf(S \ {x})

Reverse(s) == [k \in DOMAIN s |-> s[Len(s) + 1 - k]]

\* sorted(ranks.keys(), key=lambda node: (round(ranks[node], 5), node), reverse=True)
sorted_ids(rk) ==
    LET keys == KeysOf(DOMAIN rk)
    IN  Reverse(sorted(Reverse([k \in DOMAIN keys |->
                                  [key |-> <<Round5(rk[keys[k]]), keys[k]>>,
                                   item |-> keys[k]]])))

\* print(f'{node_id}: {ranks[node_id]:.5f}')
RankLine(node_id, value) == [text |-> "rank", node_id |-> node_id, value |-> value]
\* print('...')
EllipsisLine == [text |-> "...", node_id |-> -1, value |-> 0]
\* print(f'Sum: {...:.5f}')
SumLine(value) == [text |-> "Sum", node_id |-> -1, value |-> value]

\* sum(ranks[n] for n in ids[1 .. k])
RECURSIVE SumOver(_, _, _)
SumOver(rk, ids, k) ==
    IF k = 0 THEN Zero ELSE RAdd(SumOver(rk, ids, k - 1), rk[ids[k]])

\* the sum line computed over the identifiers that were listed
print_ranks_sumOfListed(rk, max) ==
    LET n == Cardinality(DOMAIN rk)
        limit == IF max \notin 0 .. (n - 1) THEN n ELSE max
        ids == sorted_ids(rk)
    IN  [k \in 1 .. limit |-> RankLine(ids[k], Round5(rk[ids[k]]))]
        \o (IF limit < n THEN <<EllipsisLine>> ELSE <<>>)
        \o <<SumLine(Round5(SumOver(rk, ids, limit)))>>

\* the lines print_ranks(rk, max) prints
print_ranks(rk, max) ==
    LET n == Cardinality(DOMAIN rk)
        limit == IF max \notin 0 .. (n - 1) THEN n ELSE max
        ids == sorted_ids(rk)
    IN  [k \in 1 .. limit |-> RankLine(ids[k], Round5(rk[ids[k]]))]
        \o (IF limit < n THEN <<EllipsisLine>> ELSE <<>>)
        \o <<SumLine(Round5(SumOver(rk, ids, n)))>>

\* the node identifiers of the mappings printed are 0 .. MaxPrintId
MaxPrintId == 3
\* max_nodes, a number of nodes, is 0 .. MaxNodesArg
MaxNodesArg == 5

\* the ranks printed: those of test_print_ranks, and 0.400004 and 0.400007,
\* which are 0.40000 and 0.40001 once rounded
RankValues ==
    {Rat(2, 5), Rat(7, 20), Rat(3, 20), Rat(1, 10),
     Rat(400004, 1000000), Rat(400007, 1000000)}

RankMappings == UNION {[S -> RankValues] : S \in SUBSET (0 .. MaxPrintId)}

InitPrint ==
    /\ directed = TRUE
    /\ _nodes = BaseGraph_init._nodes
    /\ _edges = BaseGraph_init._edges
    /\ _adjacency = BaseGraph_init._adjacency
    /\ call = [op |-> "__init__", key |-> NoKey, prop |-> 0]
    /\ ret = Return(None)
    /\ old = BaseGraph_init
    /\ added = 0
    /\ pc = "print" /\ N = 0 /\ num_iterations = 0
    /\ damping_factor = <<0, 1>> /\ i = 0
    /\ ranks \in RankMappings
    /\ max_nodes \in 0 .. MaxNodesArg
    /\ stdout = <<>>

PrintRanks ==
    /\ pc = "print"
    /\ stdout' = print_ranks(ranks, max_nodes)
    /\ call' = [op |-> "print_ranks", key |-> NoKey, prop |-> 0]
    /\ ret' = Return(None)
    /\ pc' = "printed"
    /\ UNCHANGED <<graphVars, old, added, N, num_iterations, damping_factor, i, ranks,
                   max_nodes>>

NextPrint == PrintRanks

SpecPrint == InitPrint /\ [][NextPrint]_vars

---------------------------------------------------------------------------
(* Properties of the graph ADT. *)

\* the arguments of the last add_node or add_edge call
Arg1 == call.key.items[1]
Arg2 == call.key.items[2]

\* C1: add_node(id) with an identifier that is already a node fails with the
\* "already exists" GraphError (DuplicateNodeError) and leaves the graph
\* unchanged: same len, same nodes() with their attributes, same edges(), same
\* adjacency lists.
C1_DuplicateNodeRejected ==
    (call.op = "add_node" /\ HasNode(old, Arg1)) =>
        /\ Raised(ret, MsgNodeExists)
        /\ len(self) = len(old)
        /\ nodes(self) = nodes(old)
        /\ edges(self) = edges(old)
        /\ _adjacency = old._adjacency
        /\ self = old

\* C1, witness: a duplicate add_node with other attributes than the node has,
\* on a graph that has an edge at that node, has been refused.
C1_Witness ==
    /\ call.op = "add_node" /\ HasNode(old, Arg1)
    /\ Raised(ret, MsgNodeExists)
    /\ call.prop # NodeAt(old, Arg1)._attributes
    /\ old._adjacency[Arg1] # <<>>

\* C2: len(graph) is the number of add_node calls that succeeded; add_edge calls
\* and failed add_node calls do not change len.
C2_LenCountsAddedNodes ==
    /\ len(self) = added
    /\ call.op = "add_edge" => len(self) = len(old)
    /\ (call.op = "add_node" /\ ~Returned(ret)) => len(self) = len(old)
    /\ (call.op = "add_node" /\ Returned(ret)) => len(self) = len(old) + 1

\* C2, witness: after two successful add_node calls and a successful add_edge, an
\* add_edge call has failed, and len is 2.
C2_Witness ==
    /\ call.op = "add_edge" /\ ~Returned(ret)
    /\ _edges # <<>>
    /\ added = 2 /\ len(self) = 2

\* every stored edge and every adjacency entry refers to nodes of the graph
RefersToNodes(g) ==
    /\ \A k \in DOMAIN g._edges :
          g._edges[k]._node1 \in NodeKeys(g) /\ g._edges[k]._node2 \in NodeKeys(g)
    /\ DOMAIN g._adjacency = NodeKeys(g)
    /\ \A n \in DOMAIN g._adjacency :
          \A k \in DOMAIN g._adjacency[n] : g._adjacency[n][k] \in NodeKeys(g)

MissingEndpoint == call.op = "add_edge" /\ (~HasNode(old, Arg1) \/ ~HasNode(old, Arg2))

\* C3 as claimed: add_edge(src, dst) with src or dst not a node fails with the
\* "not found" GraphError (NodeNotFoundError) in either variant, mutates nothing,
\* and edges and adjacency entries refer only to nodes.
C3_Original ==
    /\ MissingEndpoint => (Raised(ret, MsgNodeNotFound) /\ self = old)
    /\ RefersToNodes(self)

\* C3: add_edge(src, dst) with src or dst not a node fails and mutates nothing;
\* the error is the "not found" GraphError (NodeNotFoundError), except for
\* src = dst on an undirected graph, where it is the self-loop GraphError
\* (SelfLoopError); edges and adjacency entries refer only to nodes of the graph.
C3_MissingEndpointRejected ==
    /\ MissingEndpoint =>
          /\ IF ~directed /\ Arg1 = Arg2
             THEN Raised(ret, MsgSelfLoop)
             ELSE Raised(ret, MsgNodeNotFound)
          /\ self = old
    /\ RefersToNodes(self)

\* C3, witness: on a graph with an edge, add_edge from a node to an identifier
\* that is not a node has been refused with "not found".
C3_Witness ==
    /\ MissingEndpoint /\ HasNode(old, Arg1) /\ ~HasNode(old, Arg2)
    /\ Raised(ret, MsgNodeNotFound)
    /\ _edges # <<>>

\* the records of g._edges from a to b
Records(g, a, b) == {k \in DOMAIN g._edges : g._edges[k]._node1 = a /\ g._edges[k]._node2 = b}

\* the relation the call is about is already in the graph
RelationPresent(isDirected, g, a, b) ==
    \/ Records(g, a, b) # {}
    \/ ~isDirected /\ Records(g, b, a) # {}

\* C4: a directed graph holds at most one edge per ordered pair, (a,b) and (b,a)
\* being distinct; an undirected graph holds at most one relation per unordered
\* pair; add_edge on a relation already present (same direction for directed,
\* either direction for undirected) fails with the "already exists" GraphError
\* (DuplicateEdgeError) and leaves the graph unchanged.
C4_EdgeUniqueness ==
    /\ \A a \in Ids, b \in Ids :
          /\ Cardinality(Records(self, a, b)) <= 1
          /\ ~directed => Cardinality(Records(self, a, b) \cup Records(self, b, a)) \in {0, 2}
    /\ (call.op = "add_edge" /\ RelationPresent(directed, old, Arg1, Arg2)) =>
          (Raised(ret, MsgEdgeExists) /\ self = old)
    /\ (call.op = "add_edge" /\ directed /\ Records(old, Arg1, Arg2) = {}
          /\ HasNode(old, Arg1) /\ HasNode(old, Arg2)) =>
          (Returned(ret) /\ Cardinality(Records(self, Arg1, Arg2)) = 1)

\* C4, witness: on an undirected graph holding the relation {a,b} added as (a,b),
\* add_edge(b,a) has been refused.
C4_Witness ==
    /\ ~directed /\ call.op = "add_edge"
    /\ Records(old, Arg1, Arg2) # {} /\ old._edges[1]._node1 = Arg2
    /\ Raised(ret, MsgEdgeExists)

\* C4, witness: a directed graph holds both (a,b) and (b,a), a # b, and a repeated
\* add_edge has been refused.
C4_WitnessDirected ==
    /\ directed /\ call.op = "add_edge" /\ Raised(ret, MsgEdgeExists)
    /\ \E a \in Ids, b \in Ids : a # b /\ Records(self, a, b) # {} /\ Records(self, b, a) # {}

\* C5: on an undirected graph a successful add_edge(a,b) creates both directed
\* records: edge(a,b) and edge(b,a) succeed and return edges with the same
\* attributes, each with its endpoints in the queried order; degree(a) and
\* degree(b) have each grown by 1 and no other degree has changed; add_edge(b,a)
\* then fails with the "already exists" GraphError (DuplicateEdgeError).  In no
\* state does one direction exist without the other.
C5_UndirectedEdgeIsSymmetric ==
    /\ ~directed =>
          \A a \in Ids, b \in Ids : (Records(self, a, b) # {}) <=> (Records(self, b, a) # {})
    /\ (~directed /\ call.op = "add_edge" /\ Returned(ret)) =>
          LET a == Arg1
              b == Arg2
              ab == edge(self, a, b)
              ba == edge(self, b, a)
          IN  /\ Returned(ab) /\ Returned(ba)
              /\ ValueOf(ab)._attributes = ValueOf(ba)._attributes
              /\ ValueOf(ab)._attributes = call.prop
              /\ ValueOf(ab)._node1 = a /\ ValueOf(ab)._node2 = b
              /\ ValueOf(ba)._node1 = b /\ ValueOf(ba)._node2 = a
              /\ ValueOf(degree(self, a)) = ValueOf(degree(old, a)) + 1
              /\ ValueOf(degree(self, b)) = ValueOf(degree(old, b)) + 1
              /\ \A n \in NodeKeys(self) \ {a, b} : degree(self, n) = degree(old, n)
              /\ \A prop \in Attrs :
                    LET again == add_edge(directed, self, b, a, prop)
                    IN  Raised(again.ret, MsgEdgeExists) /\ again.self = self

\* C5, witness: add_edge(a,b) with attributes has succeeded on an undirected graph
\* of three nodes in which a already had an edge to the third node.
C5_Witness ==
    /\ ~directed /\ call.op = "add_edge" /\ Returned(ret)
    /\ call.prop # 0
    /\ len(self) = 3
    /\ old._adjacency[Arg1] # <<>>
    /\ \E n \in NodeKeys(self) \ {Arg1, Arg2} : ValueOf(degree(self, n)) = 1

DirectedAdded == directed /\ call.op = "add_edge" /\ Returned(ret)

\* what add_edge(a,b) does to the degrees of a and b when a # b, and to edge(b,a)
DistinctEndpointEffects(a, b) ==
    /\ Returned(edge(self, b, a)) <=> Returned(edge(old, b, a))
    /\ ValueOf(out_degree(self, a)) = ValueOf(out_degree(old, a)) + 1
    /\ ValueOf(in_degree(self, b)) = ValueOf(in_degree(old, b)) + 1
    /\ out_degree(self, b) = out_degree(old, b)
    /\ in_degree(self, a) = in_degree(old, a)

OtherDegreesUnchanged(a, b) ==
    \A n \in NodeKeys(self) \ {a, b} :
        /\ out_degree(self, n) = out_degree(old, n)
        /\ in_degree(self, n) = in_degree(old, n)

\* C6 as claimed: on a directed graph a successful add_edge(a,b) does not make
\* edge(b,a) exist, adds 1 to out_degree(a) and to in_degree(b), and leaves
\* out_degree(b), in_degree(a) and the degrees of every other node unchanged.
C6_Original ==
    DirectedAdded => (DistinctEndpointEffects(Arg1, Arg2) /\ OtherDegreesUnchanged(Arg1, Arg2))

\* C6: on a directed graph a successful add_edge(a,b) with a # b does not make
\* edge(b,a) exist, adds 1 to out_degree(a) and to in_degree(b), and leaves
\* out_degree(b) and in_degree(a) unchanged; with a = b it adds 1 to both
\* out_degree(a) and in_degree(a); in both cases the degrees of every other node
\* are unchanged.
C6_DirectedEdgeEffects ==
    DirectedAdded =>
        /\ Arg1 # Arg2 => DistinctEndpointEffects(Arg1, Arg2)
        /\ Arg1 = Arg2 =>
              /\ ValueOf(out_degree(self, Arg1)) = ValueOf(out_degree(old, Arg1)) + 1
              /\ ValueOf(in_degree(self, Arg1)) = ValueOf(in_degree(old, Arg1)) + 1
        /\ OtherDegreesUnchanged(Arg1, Arg2)

\* C6, witness: add_edge(a,b), a # b, has succeeded on a directed graph where
\* edge(b,a) does not exist, and a third node has an edge of its own.
C6_Witness ==
    /\ DirectedAdded /\ Arg1 # Arg2
    /\ ~Returned(edge(self, Arg2, Arg1))
    /\ \E n \in NodeKeys(self) \ {Arg1, Arg2} :
          ValueOf(out_degree(self, n)) = 1 /\ ValueOf(in_degree(self, Arg2)) = 2

\* C7: on an undirected graph add_edge(a,a) fails with the self-loop GraphError
\* (SelfLoopError) for every a, a node or not, and leaves the graph unchanged; on
\* a directed graph add_edge(a,a) on a node a without that self-loop succeeds and
\* adds 1 to in_degree(a) and to out_degree(a).
C7_SelfLoops ==
    /\ (~directed /\ call.op = "add_edge" /\ Arg1 = Arg2) =>
          (Raised(ret, MsgSelfLoop) /\ self = old)
    /\ ~directed => \A a \in Ids : Records(self, a, a) = {}
    /\ (directed /\ call.op = "add_edge" /\ Arg1 = Arg2
          /\ HasNode(old, Arg1) /\ Records(old, Arg1, Arg1) = {}) =>
          /\ Returned(ret)
          /\ Returned(edge(self, Arg1, Arg1))
          /\ ValueOf(in_degree(self, Arg1)) = ValueOf(in_degree(old, Arg1)) + 1
          /\ ValueOf(out_degree(self, Arg1)) = ValueOf(out_degree(old, Arg1)) + 1

\* C7, witness: add_edge(a,a) with a not a node has been refused as a self-loop
\* by an undirected graph that holds an edge.
C7_Witness ==
    /\ ~directed /\ call.op = "add_edge" /\ Arg1 = Arg2
    /\ ~HasNode(old, Arg1)
    /\ _edges # <<>>
    /\ Raised(ret, MsgSelfLoop)

\* C7, the directed case reached: a self-loop has been added to a node that
\* already had an outgoing edge.
C7_WitnessDirected ==
    /\ DirectedAdded /\ Arg1 = Arg2
    /\ ValueOf(out_degree(self, Arg1)) = 2 /\ ValueOf(in_degree(self, Arg1)) = 1

\* the permutations of 1..n
IndexPermutations(n) == {p \in [1 .. n -> 1 .. n] : \A j, k \in 1 .. n : p[j] = p[k] => j = k}
Permuted(s, p) == [k \in DOMAIN s |-> s[p[k]]]
ElementsOf(s) == {s[k] : k \in DOMAIN s}
EdgeKey(e) == <<e._node1, e._node2>>

\* C8: nodes() is the list of the nodes in ascending order of identifier and
\* edges() the list of the edges in ascending lexicographic order of (source,
\* destination), whatever the order of insertion: the same lists come out of
\* every other storage order of the same nodes and edges.  Both calls leave the
\* graph unchanged.
C8_SortedWhateverTheInsertionOrder ==
    /\ call.op = "nodes" =>
          LET v == ValueOf(ret)
          IN  /\ self = old
              /\ Len(v) = Len(_nodes) /\ ElementsOf(v) = ElementsOf(_nodes)
              /\ \A k \in 1 .. Len(v) - 1 : v[k]._id < v[k + 1]._id
              /\ \A p \in IndexPermutations(Len(_nodes)) :
                    nodes([self EXCEPT !._nodes = Permuted(_nodes, p)]) = v
    /\ call.op = "edges" =>
          LET v == ValueOf(ret)
          IN  /\ self = old
              /\ Len(v) = Len(_edges) /\ ElementsOf(v) = ElementsOf(_edges)
              /\ \A k \in 1 .. Len(v) - 1 : TupleLess(EdgeKey(v[k]), EdgeKey(v[k + 1]))
              /\ \A p \in IndexPermutations(Len(_edges)) :
                    edges([self EXCEPT !._edges = Permuted(_edges, p)]) = v

\* C8, witness: edges() has been called on a graph whose nodes and whose edges
\* were both inserted out of order, two edges leaving the same node.
C8_Witness ==
    /\ call.op = "edges"
    /\ Len(_nodes) = 3 /\ _nodes[1]._id > _nodes[2]._id
    /\ Len(_edges) >= 2
    /\ _edges[1]._node1 = _edges[2]._node1 /\ _edges[1]._node2 > _edges[2]._node2

\* the key names something in the graph: a node identifier, or a pair whose
\* edge is in the graph (in either order on an undirected graph)
KeyPresent(key) ==
    \/ ~key.tuple /\ HasNode(self, key.items[1])
    \/ /\ key.tuple /\ Len(key.items) = 2
       /\ RelationPresent(directed, self, key.items[1], key.items[2])

\* C9 as claimed: `key in g` is true exactly for a node identifier of g and for a
\* 2-element pair whose edge is in g; for every other key it is false and g[key]
\* raises the "not found" GraphError.  g[key] returns the Node of a node
\* identifier and the Edge of a pair, and succeeds exactly when `key in g`.
C9_KeyDispatch ==
    \A key \in Keys :
        LET found == contains(directed, self, key)
            got == getitem(self, key)
        IN  /\ Returned(found) /\ ValueOf(found) = KeyPresent(key)
            /\ Returned(got) <=> ValueOf(found)
            /\ ~KeyPresent(key) => Raised(got, MsgKeyNotFound)
            /\ (KeyPresent(key) /\ ~key.tuple) => got = Return(NodeAt(self, key.items[1]))
            /\ (KeyPresent(key) /\ key.tuple) =>
                  /\ Returned(got)
                  /\ ValueOf(got)._node1 = key.items[1]
                  /\ ValueOf(got)._node2 = key.items[2]

---------------------------------------------------------------------------
(* Properties of pagerank. *)

\* the sum of the ranks of the nodes of S
RECURSIVE RankTotal(_, _)
RankTotal(rk, S) ==
    IF S = {} THEN Zero
    ELSE LET n == CHOOSE m \in S : TRUE
         IN  RAdd(rk[n], RankTotal(rk, S \ {n}))

\* C10: for a directed graph of N >= 1 nodes of any topology, the rank mapping
\* sums to 1 when the loop is entered and after every round, and so do the ranks
\* pagerank returns.
C10_MassConserved ==
    /\ (pc \in {"loop", "done"} /\ N >= 1) =>
          (DOMAIN ranks = NodeKeys(self) /\ RankTotal(ranks, DOMAIN ranks) = One)
    /\ pc = "done" => ret = Return(ranks)

\* C10, witness: pagerank has returned after two rounds on a graph of three nodes
\* with a self-loop, a node without out-edges and an edge between two nodes, and
\* the ranks are not all equal.
C10_Witness ==
    /\ pc = "done" /\ i = 2 /\ N = 3
    /\ \E a \in NodeKeys(self) : Records(self, a, a) # {}
    /\ \E a \in NodeKeys(self) : ValueOf(out_degree(self, a)) = 0
    /\ \E a \in NodeKeys(self), b \in NodeKeys(self) : a # b /\ Records(self, a, b) # {}
    /\ \E a \in NodeKeys(self), b \in NodeKeys(self) : RLess(ranks[a], ranks[b])
    /\ damping_factor = DefaultDamping

\* C11: for a directed graph of N >= 1 nodes, the default damping factor and at
\* least one iteration, every node of the graph has a rank, and each rank is
\* strictly positive and at least (1 - damping)/N, also for a node without
\* incoming edges; so it is for the ranks pagerank returns.
C11_RanksPositive ==
    (pc \in {"loop", "done"} /\ N >= 1 /\ i >= 1 /\ damping_factor = DefaultDamping) =>
        /\ DOMAIN ranks = NodeKeys(self)
        /\ \A n \in NodeKeys(self) :
              /\ RLess(Zero, ranks[n])
              /\ ~RLess(ranks[n], RDiv(RSub(One, damping_factor), N))
        /\ pc = "done" => ret = Return(ranks)

\* C11, witness: pagerank has returned after two rounds with the default damping
\* on a graph of three nodes none of which is without out-edges; one node has no
\* incoming edge and its rank is exactly (1 - damping)/N.
C11_Witness ==
    /\ pc = "done" /\ i = 2 /\ N = 3 /\ damping_factor = DefaultDamping
    /\ \A a \in NodeKeys(self) : ValueOf(out_degree(self, a)) > 0
    /\ \E a \in NodeKeys(self) :
          /\ ValueOf(in_degree(self, a)) = 0
          /\ ranks[a] = RDiv(RSub(One, damping_factor), N)

\* |p - q| < tol
Within(p, q, tol) == RLess(RSub(p, q), tol) /\ RLess(RSub(q, p), tol)

OneThousandth == Rat(1, 1000)

\* C12: on the fully symmetric graphs pagerank gives the uniform distribution:
\* the rank of a single isolated node is exactly 1 whatever the number of
\* iterations; after 20 iterations or more every rank of the 3-cycle 0->1->2->0
\* is within 1e-3 of 1/3 and both ranks of the cycle 0->1, 1->0 are within 1e-3
\* of 1/2.
C12_UniformOnSymmetricGraphs ==
    /\ (self = SingleNode /\ pc \in {"loop", "done"}) =>
          (DOMAIN ranks = {42} /\ ranks[42] = One)
    /\ pc = "done" => (i = num_iterations /\ ret = Return(ranks))
    /\ (self = Triangle /\ pc = "done" /\ num_iterations >= 20) =>
          /\ DOMAIN ranks = {0, 1, 2}
          /\ \A n \in {0, 1, 2} : Within(ranks[n], Rat(1, 3), OneThousandth)
    /\ (self = TwoNodeCycle /\ pc = "done" /\ num_iterations >= 20) =>
          /\ DOMAIN ranks = {0, 1}
          /\ \A n \in {0, 1} : Within(ranks[n], Rat(1, 2), OneThousandth)

\* C12, witness: pagerank has returned from its 21st round on the 3-cycle with
\* the default damping.
C12_Witness ==
    /\ self = Triangle /\ pc = "done" /\ i = 21 /\ damping_factor = DefaultDamping
    /\ ValueOf(ret)[0] = Rat(1, 3)

\* C12, the other two graphs reached: the single node after 21 rounds and the
\* two-node cycle after 20.
C12_WitnessOthers ==
    \/ self = SingleNode /\ pc = "done" /\ i = 21 /\ ValueOf(ret)[42] = One
    \/ self = TwoNodeCycle /\ pc = "done" /\ i = 20 /\ ValueOf(ret)[1] = Rat(1, 2)

\* C13: on the chain 0->1->2, whose node 2 has no out-edges, the rank pagerank
\* returns for node 2 after 20 iterations or more is strictly above the rank of
\* node 0 and strictly above the rank of node 1.
C13_SinkRanksHighest ==
    (self = Chain /\ pc = "done" /\ num_iterations >= 20) =>
        /\ i = num_iterations /\ ret = Return(ranks)
        /\ DOMAIN ranks = {0, 1, 2}
        /\ FLess(ranks[0], ranks[2])
        /\ FLess(ranks[1], ranks[2])

\* C13, witness: pagerank has returned from its 20th round on the chain with the
\* default damping; the ranks are known to 1e-3 and are those of the Python run,
\* 0.18442, 0.34117, 0.47441.
C13_Witness ==
    /\ self = Chain /\ pc = "done" /\ i = 20 /\ damping_factor = DefaultDamping
    /\ \A n \in {0, 1, 2} : ranks[n][2] - ranks[n][1] < Scale \div 1000
    /\ ranks[0][1] <= 184416 /\ 184417 <= ranks[0][2]
    /\ ranks[1][1] <= 341171 /\ 341172 <= ranks[1][2]
    /\ ranks[2][1] <= 474412 /\ 474413 <= ranks[2][2]

\* the sum of f[x] over the x of S
RECURSIVE SumOfSet(_, _)
SumOfSet(f, S) ==
    IF S = {} THEN Zero
    ELSE LET x == CHOOSE y \in S : TRUE
         IN  RAdd(f[x], SumOfSet(f, S \ {x}))

\* the round of C15 applied to the mapping r of the ranks of the nodes of g:
\* new_rank[v] = (1 - damping)/N + damping * (sum over the edges (u,v) of
\* r[u]/out_degree(u) + dangling_sum/N), dangling_sum the sum of r over the nodes
\* of out-degree 0
RoundOfClaim(g, r, damping) ==
    LET V == NodeKeys(g)
        n == Cardinality(V)
        outdeg == [u \in V |-> ValueOf(out_degree(g, u))]
        share == [u \in V |-> IF outdeg[u] = 0 THEN r[u] ELSE RDiv(r[u], outdeg[u])]
        dangling == SumOfSet(r, {u \in V : outdeg[u] = 0})
    IN  [v \in V |->
            RAdd(RDiv(RSub(One, damping), n),
                 RMul(damping,
                      RAdd(SumOfSet(share, {u \in V : Records(g, u, v) # {}}),
                           RDiv(dangling, n))))]

\* the round applied k times to rank[v] = 1/N
RECURSIVE IteratedOfClaim(_, _, _)
IteratedOfClaim(g, k, damping) ==
    IF k = 0 THEN [v \in NodeKeys(g) |-> Rat(1, Cardinality(NodeKeys(g)))]
    ELSE RoundOfClaim(g, IteratedOfClaim(g, k - 1, damping), damping)

\* C15: after i rounds the mapping holds, for every node identifier of the graph
\* and no other key, the round of the claim applied i times to rank[v] = 1/N,
\* every rank of a round being read from the mapping of the round before;
\* pagerank returns after exactly num_iterations rounds (the initial mapping for
\* 0) and returns that mapping; and the mapping returned is what the last round
\* makes of the mapping before it in whatever order its two loops visit the
\* nodes.
C15_RoundsOnFrozenRanks ==
    /\ pc \in {"loop", "done"} =>
          /\ DOMAIN ranks = NodeKeys(self)
          /\ ranks = IteratedOfClaim(self, i, damping_factor)
          /\ i <= num_iterations
    /\ pc = "done" => (i = num_iterations /\ ret = Return(ranks))
    /\ (pc = "done" /\ i >= 1) =>
          LET ns == nodes(self)
              ids == [k \in DOMAIN ns |-> ns[k]._id]
              before == IteratedOfClaim(self, i - 1, damping_factor)
          IN  \A p \in IndexPermutations(Len(ids)) :
                  VisitUpTo(self, before, N, damping_factor,
                            DanglingUpTo(self, before, Permuted(ids, p), Len(ids)),
                            Permuted(ids, p), Len(ids))
                    = ranks

\* C15, witness: pagerank has returned after two rounds on a graph of three nodes
\* where a node without out-edges has two in-links, one of them from a node with
\* two out-edges, and the three ranks differ.
C15_Witness ==
    /\ pc = "done" /\ i = 2 /\ N = 3
    /\ \E u \in NodeKeys(self), v \in NodeKeys(self) :
          /\ ValueOf(out_degree(self, v)) = 0
          /\ Len(in_links(self, v)) = 2
          /\ Records(self, u, v) # {} /\ ValueOf(out_degree(self, u)) = 2
    /\ Cardinality({ranks[v] : v \in NodeKeys(self)}) = 3
    /\ ValueOf(ret) = IteratedOfClaim(self, 2, damping_factor)

\* C15, with no round at all: pagerank has returned the initial mapping.
C15_WitnessNoRound ==
    /\ pc = "done" /\ num_iterations = 0 /\ N = 3
    /\ \A v \in NodeKeys(self) : ValueOf(ret)[v] = Rat(1, 3)

\* the sum of the integers f[x] over the x of S
RECURSIVE TotalOf(_, _)
TotalOf(f, S) ==
    IF S = {} THEN 0
    ELSE LET x == CHOOSE y \in S : TRUE
         IN  f[x] + TotalOf(f, S \ {x})

\* the stored edges of g that leave u
EdgesFrom(g, u) == {k \in DOMAIN g._edges : g._edges[k]._node1 = u}

\* C16: in every state of a DirectedGraph, out_degree(u), the length of the
\* adjacency list of u, is the number of stored edges whose source is u, and the
\* in-degrees and the out-degrees both sum to the number of edges.  So the source
\* of every edge has out-degree at least 1: every in-link pagerank finds passes
\* its `out_degree > 0` test, and the nodes pagerank adds to dangling_sum are
\* exactly the nodes that are the source of no edge.
C16_AdjacencyMatchesEdges ==
    directed =>
        LET V == NodeKeys(self)
            outdeg == [u \in V |-> ValueOf(out_degree(self, u))]
            indeg == [u \in V |-> ValueOf(in_degree(self, u))]
            unit == [u \in V |-> One]
        IN  /\ \A u \in V :
                  /\ Returned(out_degree(self, u))
                  /\ outdeg[u] = Len(_adjacency[u])
                  /\ outdeg[u] = Cardinality(EdgesFrom(self, u))
            /\ TotalOf(indeg, V) = Len(_edges)
            /\ TotalOf(outdeg, V) = Len(_edges)
            /\ \A k \in DOMAIN _edges : outdeg[_edges[k]._node1] >= 1
            /\ \A v \in V :
                  LET links == in_links(self, v)
                  IN  /\ Len(links) = indeg[v]
                      /\ \A k \in DOMAIN links : ValueOf(out_degree(self, links[k])) > 0
            /\ dangling_sum(self, unit) = <<Cardinality({u \in V : EdgesFrom(self, u) = {}}), 1>>

\* C16, witness: a directed graph of three nodes holds two edges that leave the
\* same node, one of them a self-loop, and a node that is the source of no edge.
C16_Witness ==
    /\ directed /\ len(self) = 3 /\ Len(_edges) = 2
    /\ \E u \in NodeKeys(self) :
          /\ ValueOf(out_degree(self, u)) = 2
          /\ Records(self, u, u) # {}
          /\ ValueOf(in_degree(self, u)) = 1
    /\ \E u \in NodeKeys(self) : EdgesFrom(self, u) = {} /\ ValueOf(in_degree(self, u)) = 1

---------------------------------------------------------------------------
(* Properties of print_ranks. *)

\* the number of (identifier, rank) lines printed
Listed == Cardinality({k \in DOMAIN stdout : stdout[k].text = "rank"})

\* line k comes before line k + 1 in the order of the listing
InListingOrder(a, b) ==
    \/ a.value > b.value
    \/ a.value = b.value /\ a.node_id > b.node_id

\* C14: print_ranks(ranks, max_nodes) lists at most max_nodes (identifier, rank)
\* pairs, by descending rank rounded to 5 decimal places, ties by descending
\* identifier: the listing is the start of that order of all the pairs; it prints
\* an ellipsis line exactly when fewer pairs are listed than len(ranks); it ends
\* with one line giving the sum of all the ranks, listed or not; for
\* {0:0.4, 1:0.35, 2:0.15, 3:0.1} and 2 it prints node 0, node 1, an ellipsis
\* line and the sum 1.00000.
C14_PrintRanks ==
    pc = "printed" =>
        LET n == Cardinality(DOMAIN ranks)
        IN  /\ Listed <= max_nodes
            /\ Listed = max_nodes \/ Listed = n
            /\ \A k \in 1 .. Listed :
                  /\ stdout[k].text = "rank"
                  /\ stdout[k].node_id \in DOMAIN ranks
                  /\ stdout[k].value = Round5(ranks[stdout[k].node_id])
            /\ \A k \in 1 .. Listed - 1 : InListingOrder(stdout[k], stdout[k + 1])
            /\ \A u \in DOMAIN ranks :
                  \/ \E k \in 1 .. Listed : stdout[k].node_id = u
                  \/ \A k \in 1 .. Listed :
                        InListingOrder(stdout[k], RankLine(u, Round5(ranks[u])))
            /\ Len(stdout) = Listed + (IF Listed < n THEN 2 ELSE 1)
            /\ Listed < n => stdout[Listed + 1] = EllipsisLine
            /\ stdout[Len(stdout)] = SumLine(Round5(RankTotal(ranks, DOMAIN ranks)))
            /\ (ranks = (0 :> Rat(2, 5) @@ 1 :> Rat(7, 20) @@ 2 :> Rat(3, 20) @@ 3 :> Rat(1, 10))
                  /\ max_nodes = 2) =>
                  stdout = <<RankLine(0, 40000), RankLine(1, 35000), EllipsisLine,
                             SumLine(100000)>>

\* C14, witness: four ranks were printed with max_nodes = 2; the two listed have
\* the same rounded rank 0.40000, the one with the greater identifier first
\* although its rank, 0.4, is below the 0.400004 of the other, and a third node of
\* rank 0.4 with a smaller identifier is not listed.
C14_Witness ==
    /\ pc = "printed" /\ max_nodes = 2 /\ DOMAIN ranks = 0 .. 3
    /\ ranks[3] = Rat(2, 5) /\ ranks[2] = Rat(400004, 1000000) /\ ranks[1] = Rat(2, 5)
    /\ stdout = <<RankLine(3, 40000), RankLine(2, 40000), EllipsisLine,
                  SumLine(Round5(RankTotal(ranks, DOMAIN ranks)))>>

=============================================================================
